---- MODULE Spec2Model ----
(***************************************************************************)
(* A model of OpenAIAssistant (src/ai_chat.py): the per-user conversation  *)
(* context, the role-prompt refresh, the truncation policy, the single-    *)
(* shot and the streamed chat turn, the prompt store and the conversation  *)
(* log.                                                                    *)
(*                                                                         *)
(* A message is a Python dict {"role", "content"}.  The context list holds *)
(* references to dicts, and chat() writes element 0 in place, so a message *)
(* of a context carries an object identity `oid`: two elements of one list *)
(* with the same oid are the same dict.  oid is kept canonical: it is the  *)
(* index of the first element of the list that is that object.  What is    *)
(* written to the log is the JSON text, which has no identities.           *)
(* Timestamps (datetime.now()) are left out of results and snapshots.      *)
(***************************************************************************)
EXTENDS Integers, Sequences, FiniteSets, TLC

VARIABLES
    conversation_context,  \* self.conversation_context: user_id -> list of messages
    current_role,          \* self.current_role
    max_turns,             \* self.max_turns
    truncate_mode,         \* self.truncate_mode
    prompts_file,          \* the file at config['storage']['prompts_path']
    conversations_file,    \* the file at config['storage']['conversations_path']
    streams,               \* user_id -> the chat_stream generator the user is consuming
    ret,                   \* what the last call returned (or the last event yielded)
    calls,                 \* how many calls and stream pulls the callers have made
    history,               \* the (message, reply) pairs of the scripted turns so far
    probe                  \* argument and result of a direct call of _truncate_context

vars == <<conversation_context, current_role, max_turns, truncate_mode,
          prompts_file, conversations_file, streams, ret, calls, history, probe>>

\* the variables that only bound or drive the exploration
harness_vars == <<calls, history, probe>>

engine_vars == <<conversation_context, current_role, max_turns, truncate_mode,
                 prompts_file, conversations_file, streams, ret>>

-----------------------------------------------------------------------------
(* Bounds of the model *)

\* most calls and stream pulls the callers make
MaxCalls == 3
\* most content fragments one stream delivers
MaxFrags == 2
\* largest max_turns that is configured or set
MaxTurnsSet == 1
\* longest context handed to a direct call of _truncate_context
MaxProbeLen == 6
\* largest max_turns a direct call of _truncate_context runs under
MaxProbeTurns == 2

-----------------------------------------------------------------------------
(* Inputs *)

Users == {"u1", "u2"}
Messages == {"a"}
Replies == {"A"}
Fragments == {"x"}
\* role_type = None (or any falsy value) of chat / chat_stream
None == "None"
\* the role names callers pass: two stored ones and one that no store holds
RoleArgs == {"default", "code", "bogus"}
Modes == {"sliding", "clear"}
\* the max_turns values configured or set: neither __init__ nor
\* update_settings validates, so 0 is among them
TurnValues == 0..MaxTurnsSet
\* the max_turns values of the direct calls, negative ones included
ProbeTurnValues == (0 - 2)..MaxProbeTurns

-----------------------------------------------------------------------------
(* Python lists *)

\* seq[start:] of Python: a negative start counts from the end, and the
\* start is clamped to 0..len
PySliceFrom(seq, start) ==
    LET n == Len(seq)
        s0 == IF start < 0 THEN start + n ELSE start
        s == IF s0 < 0 THEN 0 ELSE IF s0 > n THEN n ELSE s0
    IN  SubSeq(seq, s + 1, n)

\* the identities of a list made canonical: each element is named by the
\* index of the first element that is the same object
Canon(seq) ==
    [i \in 1..Len(seq) |->
        [seq[i] EXCEPT !.oid =
            CHOOSE j \in 1..i :
                /\ seq[j].oid = seq[i].oid
                /\ \A k \in 1..(j - 1) : seq[k].oid # seq[i].oid]]

\* an object id no element of the list has
FreshOid(seq) == Len(seq) + 1

\* list.append({"role": role, "content": content}): a new dict at the end
\* (its index is its identity, so a canonical list stays canonical)
ListAppend(seq, role, content) ==
    Append(seq, [role |-> role, content |-> content, oid |-> FreshOid(seq)])

\* the JSON text of a list of messages: roles and contents, no identities
ToJson(seq) ==
    [i \in 1..Len(seq) |-> [role |-> seq[i].role, content |-> seq[i].content]]

\* a dict as a function on its keys
EmptyDict == [k \in {} |-> <<>>]

DictSet(d, key, value) ==
    [k \in (DOMAIN d) \cup {key} |-> IF k = key THEN value ELSE d[k]]

DictDel(d, key) == [k \in (DOMAIN d) \ {key} |-> d[k]]

-----------------------------------------------------------------------------
(* Truncation policy *)

\* seq[:stop] of Python, for 0 <= stop
PySliceTo(seq, stop) ==
    SubSeq(seq, 1, IF stop > Len(seq) THEN Len(seq) ELSE stop)

\* _truncate_context with the limit test written `turns < max_turns`
TruncateWith_Strict(context, mt, mode) ==
    IF Len(context) <= 1 THEN context
    ELSE LET turns == (Len(context) - 1) \div 2
         IN  IF turns < mt THEN context
             ELSE IF mode = "clear" THEN <<context[1]>>
             ELSE LET preserved_messages_count == mt * 2
                  IN  Canon(<<context[1]>>
                            \o PySliceFrom(context, 0 - preserved_messages_count))

\* _truncate_context with the mode name of the clear branch misspelt, so
\* that every mode is handled by the sliding branch
TruncateWith_ModeTypo(context, mt, mode) ==
    IF Len(context) <= 1 THEN context
    ELSE LET turns == (Len(context) - 1) \div 2
         IN  IF turns <= mt THEN context
             ELSE IF mode = "clean" THEN <<context[1]>>
             ELSE LET preserved_messages_count == mt * 2
                  IN  Canon(<<context[1]>>
                            \o PySliceFrom(context, 0 - preserved_messages_count))

\* _truncate_context with the window taken from the front of the turns
\* (context[1:1 + n] for context[-n:])
TruncateWith_KeepOldest(context, mt, mode) ==
    IF Len(context) <= 1 THEN context
    ELSE LET turns == (Len(context) - 1) \div 2
         IN  IF turns <= mt THEN context
             ELSE IF mode = "clear" THEN <<context[1]>>
             ELSE LET preserved_messages_count == mt * 2
                  IN  Canon(PySliceTo(context, 1 + preserved_messages_count))

\* _truncate_context with the limit test written `turns <= max_turns + 1`
TruncateWith_Late(context, mt, mode) ==
    IF Len(context) <= 1 THEN context
    ELSE LET turns == (Len(context) - 1) \div 2
         IN  IF turns <= mt + 1 THEN context
             ELSE IF mode = "clear" THEN <<context[1]>>
             ELSE LET preserved_messages_count == mt * 2
                  IN  Canon(<<context[1]>>
                            \o PySliceFrom(context, 0 - preserved_messages_count))

\* _truncate_context with self.max_turns = mt and self.truncate_mode = mode
TruncateWith(context, mt, mode) ==
    IF Len(context) <= 1 THEN context
    ELSE LET turns == (Len(context) - 1) \div 2
         IN  IF turns <= mt THEN context
             ELSE IF mode = "clear" THEN <<context[1]>>
             ELSE LET preserved_messages_count == mt * 2
                  IN  Canon(<<context[1]>>
                            \o PySliceFrom(context, 0 - preserved_messages_count))

\* _truncate_context with the limit and the mode taken from fixed values
\* instead of the current settings
_truncate_context_Configured(context) == TruncateWith(context, MaxTurnsSet, "sliding")

_truncate_context(context) == TruncateWith(context, max_turns, truncate_mode)

-----------------------------------------------------------------------------
(* Prompt store *)

\* the prompt text a store file holds under a role name
StoredText(name) == "stored:" \o name

\* the built-in set _load_prompts writes when the file is absent (the two
\* Chinese role names are written child_expert and big_sister here)
default_prompts ==
    [name \in {"default", "professional", "creative", "code",
               "child_expert", "big_sister"} |-> "builtin:" \o name]

FileMissing == [state |-> "missing", data |-> EmptyDict]
FileCorrupt == [state |-> "corrupt", data |-> EmptyDict]
FileOf(d) == [state |-> "ok", data |-> d]

\* a prompt file written by hand that has no "default" entry
FileNoDefault == FileOf([name \in {"code"} |-> StoredText(name)])

\* the prompt files the assistant is started on: none (the built-in set is
\* written at the first read), unparsable JSON, and one without "default"
PromptFiles == {FileMissing, FileCorrupt, FileNoDefault}

\* _load_prompts: the dict read, or the built-in set (written back) when the
\* file does not exist; json.load raises on a corrupt file
_load_prompts(file) ==
    IF file.state = "ok"
    THEN [raised |-> FALSE, prompts |-> file.data, file |-> file]
    ELSE IF file.state = "missing"
    THEN [raised |-> FALSE, prompts |-> default_prompts,
          file |-> FileOf(default_prompts)]
    ELSE [raised |-> TRUE, prompts |-> EmptyDict, file |-> file]

\* load_prompt: prompts.get(prompt_name, prompts["default"]) evaluates
\* prompts["default"] before the lookup, so a store without "default" raises
load_prompt(file, prompt_name) ==
    LET lp == _load_prompts(file)
    IN  IF lp.raised \/ "default" \notin DOMAIN lp.prompts
        THEN [raised |-> TRUE, text |-> "", file |-> lp.file]
        ELSE [raised |-> FALSE,
              text |-> IF prompt_name \in DOMAIN lp.prompts
                       THEN lp.prompts[prompt_name]
                       ELSE lp.prompts["default"],
              file |-> lp.file]

\* set_role with the assignment made before the membership test
set_role_AssignFirst(file, role_type, cur) ==
    LET lp == _load_prompts(file)
    IN  IF lp.raised
        THEN [raised |-> TRUE, ok |-> FALSE, role |-> cur, file |-> lp.file]
        ELSE IF role_type \in DOMAIN lp.prompts
        THEN [raised |-> FALSE, ok |-> TRUE, role |-> role_type, file |-> lp.file]
        ELSE [raised |-> FALSE, ok |-> FALSE, role |-> role_type, file |-> lp.file]

\* set_role on active role cur: the new active role and the bool returned
set_role(file, role_type, cur) ==
    LET lp == _load_prompts(file)
    IN  IF lp.raised
        THEN [raised |-> TRUE, ok |-> FALSE, role |-> cur, file |-> lp.file]
        ELSE IF role_type \in DOMAIN lp.prompts
        THEN [raised |-> FALSE, ok |-> TRUE, role |-> role_type, file |-> lp.file]
        ELSE [raised |-> FALSE, ok |-> FALSE, role |-> cur, file |-> lp.file]

\* list_available_roles without its try / except
list_available_roles_Unguarded(file) ==
    LET lp == _load_prompts(file)
    IN  [raised |-> lp.raised, roles |-> DOMAIN lp.prompts, file |-> lp.file]

\* list_available_roles: the keys of the store (as a set: the order of the
\* list is the order of the keys in the file), or ["default"] when the
\* read raised
list_available_roles(file) ==
    LET lp == _load_prompts(file)
    IN  IF lp.raised
        THEN [raised |-> FALSE, roles |-> {"default"}, file |-> lp.file]
        ELSE [raised |-> FALSE, roles |-> DOMAIN lp.prompts, file |-> lp.file]

-----------------------------------------------------------------------------
(* Conversation log *)

\* save_conversation with the user's list replaced by the new snapshot
\* (the earlier snapshots of the user are lost)
save_conversation_Overwrite(file, user_id, conversation) ==
    LET snapshot == [messages |-> ToJson(conversation)]
        conversations == IF file.state = "ok" THEN file.data ELSE EmptyDict
    IN  FileOf(DictSet(conversations, user_id, <<snapshot>>))

\* save_conversation with the new snapshot put in front of the user's list
save_conversation_Prepend(file, user_id, conversation) ==
    LET snapshot == [messages |-> ToJson(conversation)]
        conversations == IF file.state = "ok" THEN file.data ELSE EmptyDict
        earlier == IF user_id \in DOMAIN conversations
                   THEN conversations[user_id] ELSE <<>>
    IN  FileOf(DictSet(conversations, user_id, <<snapshot>> \o earlier))

\* save_conversation writing a log that holds the user's list only (what
\* the FileNotFoundError branch writes), whatever the file held
save_conversation_DropsOthers(file, user_id, conversation) ==
    LET snapshot == [messages |-> ToJson(conversation)]
        conversations == IF file.state = "ok" THEN file.data ELSE EmptyDict
        earlier == IF user_id \in DOMAIN conversations
                   THEN conversations[user_id] ELSE <<>>
    IN  FileOf(DictSet(EmptyDict, user_id, Append(earlier, snapshot)))

\* save_conversation: a corrupt file is read as {} and a missing file is
\* created; the snapshot goes to the end of the user's list
save_conversation(file, user_id, conversation) ==
    LET snapshot == [messages |-> ToJson(conversation)]
        conversations == IF file.state = "ok" THEN file.data ELSE EmptyDict
        earlier == IF user_id \in DOMAIN conversations
                   THEN conversations[user_id] ELSE <<>>
    IN  FileOf(DictSet(conversations, user_id, Append(earlier, snapshot)))

\* get_conversation_history: the user's snapshots, [] for a missing file or
\* a missing key; only FileNotFoundError is caught, so json.load raises on a
\* corrupt file
get_conversation_history(file, user_id) ==
    IF file.state = "missing" THEN [raised |-> FALSE, snapshots |-> <<>>]
    ELSE IF file.state = "corrupt" THEN [raised |-> TRUE, snapshots |-> <<>>]
    ELSE [raised |-> FALSE,
          snapshots |-> IF user_id \in DOMAIN file.data
                        THEN file.data[user_id] ELSE <<>>]

-----------------------------------------------------------------------------
(* Completion backend *)

\* calls of the decorated function that tenacity makes at most
StopAfterAttempt == 3

\* what the backend does at one attempt: it raises, or it answers with a text
Fail == "fail"
Outcomes == {Fail} \cup Replies
\* the backend over the attempts of one call: down for the first `down`
\* attempts, answering `reply` from then on
Script(down, reply) ==
    [k \in 1..StopAfterAttempt |-> IF k <= down THEN Fail ELSE reply]
BackendScripts ==
    {Script(down, reply) : down \in 0..StopAfterAttempt, reply \in Replies}

\* the body of _make_request: it catches every exception of the API call
\* and returns a dict, so it never raises
RequestBody(outcome) ==
    IF outcome = Fail
    THEN [raised |-> FALSE, success |-> FALSE, data |-> ""]
    ELSE [raised |-> FALSE, success |-> TRUE, data |-> outcome]

\* @retry(stop=stop_after_attempt(3), reraise=True): the body is called
\* again only when it raised
RECURSIVE RetryCall(_, _)
RetryCall(outs, attempt) ==
    LET r == RequestBody(outs[attempt])
    IN  IF r.raised /\ attempt < StopAfterAttempt
        THEN RetryCall(outs, attempt + 1)
        ELSE [raised |-> r.raised, success |-> r.success, data |-> r.data,
              attempts |-> attempt]

_make_request(outs) == RetryCall(outs, 1)

-----------------------------------------------------------------------------
(* Chat engine: the steps chat and chat_stream share *)

\* context[0]["content"] = system_prompt: the dict at index 0 is written,
\* and with it every element of the list that is that same dict
WriteSystemPrompt(context, system_prompt) ==
    [i \in 1..Len(context) |->
        IF context[i].oid = context[1].oid
        THEN [context[i] EXCEPT !.content = system_prompt]
        ELSE context[i]]

\* the refresh with element 0 of an existing context left as it is
RefreshContext_KeepsPrompt(contexts, user_id, system_prompt) ==
    IF user_id \notin DOMAIN contexts
    THEN <<[role |-> "system", content |-> system_prompt, oid |-> 1]>>
    ELSE contexts[user_id]

\* the refresh with a new user's list started from the list of a user
\* who already has one
RefreshContext_SharedList(contexts, user_id, system_prompt) ==
    IF user_id \notin DOMAIN contexts
    THEN IF DOMAIN contexts = {}
         THEN <<[role |-> "system", content |-> system_prompt, oid |-> 1]>>
         ELSE WriteSystemPrompt(contexts[CHOOSE v \in DOMAIN contexts : TRUE],
                                system_prompt)
    ELSE IF contexts[user_id][1].role = "system"
    THEN WriteSystemPrompt(contexts[user_id], system_prompt)
    ELSE Canon(<<[role |-> "system", content |-> system_prompt,
                  oid |-> FreshOid(contexts[user_id])]>> \o contexts[user_id])

\* "get or initialise the user's context": a new list for a new user, else
\* element 0 overwritten in place when it is a system message, else a
\* system message inserted at 0
RefreshContext(contexts, user_id, system_prompt) ==
    IF user_id \notin DOMAIN contexts
    THEN <<[role |-> "system", content |-> system_prompt, oid |-> 1]>>
    ELSE IF contexts[user_id][1].role = "system"
    THEN WriteSystemPrompt(contexts[user_id], system_prompt)
    ELSE Canon(<<[role |-> "system", content |-> system_prompt,
                  oid |-> FreshOid(contexts[user_id])]>> \o contexts[user_id])

\* the shared steps with the user message appended before the truncation
PrepareTurn_AppendFirst(user_id, message, role_type) ==
    LET switch == role_type # None /\ role_type # current_role
        sr == IF switch THEN set_role(prompts_file, role_type, current_role)
              ELSE [raised |-> FALSE, ok |-> TRUE, role |-> current_role,
                    file |-> prompts_file]
        Unmutated(kind, role, file) ==
            [kind |-> kind, role |-> role, file |-> file,
             contexts |-> conversation_context]
    IN  IF sr.raised THEN Unmutated("exception", sr.role, sr.file)
        ELSE IF ~sr.ok THEN Unmutated("invalid_role", sr.role, sr.file)
        ELSE LET lp == load_prompt(sr.file, sr.role)
                 refreshed == RefreshContext(conversation_context, user_id, lp.text)
                 appended == ListAppend(refreshed, "user", message)
                 truncated == _truncate_context(appended)
             IN  IF lp.raised THEN Unmutated("exception", sr.role, lp.file)
                 ELSE [kind |-> "ok", role |-> sr.role, file |-> lp.file,
                       contexts |-> DictSet(conversation_context, user_id, truncated)]

\* the turn up to the append of the user message: role switch, prompt
\* lookup, refresh, truncation, append.  kind is "invalid_role" when
\* set_role returned False, "exception" when a prompt-store read raised,
\* "ok" otherwise; role, file and contexts are the values left behind
PrepareTurn(user_id, message, role_type) ==
    LET switch == role_type # None /\ role_type # current_role
        sr == IF switch THEN set_role(prompts_file, role_type, current_role)
              ELSE [raised |-> FALSE, ok |-> TRUE, role |-> current_role,
                    file |-> prompts_file]
        Unmutated(kind, role, file) ==
            [kind |-> kind, role |-> role, file |-> file,
             contexts |-> conversation_context]
    IN  IF sr.raised THEN Unmutated("exception", sr.role, sr.file)
        ELSE IF ~sr.ok THEN Unmutated("invalid_role", sr.role, sr.file)
        ELSE LET lp == load_prompt(sr.file, sr.role)
                 refreshed == RefreshContext(conversation_context, user_id, lp.text)
                 truncated == _truncate_context(refreshed)
                 appended == ListAppend(truncated, "user", message)
             IN  IF lp.raised THEN Unmutated("exception", sr.role, lp.file)
                 ELSE [kind |-> "ok", role |-> sr.role, file |-> lp.file,
                       contexts |-> DictSet(conversation_context, user_id, appended)]

\* the last call and the value it returned (or the event the stream
\* yielded).  op, user and message name the call; kind names the shape of
\* the dict returned, text is its "response" or "content", current_role is
\* None where the dict has no such key; attempts counts the calls of the
\* completion API that the call made
Ret(op, user_id, message, kind, text, role, attempts) ==
    [op |-> op, user |-> user_id, message |-> message, kind |-> kind,
     text |-> text, current_role |-> role, attempts |-> attempts]

IdleStream == [pc |-> "idle", full_response |-> "", frags |-> 0]

\* no generator of this user is suspended between two events
Idle(user_id) == streams[user_id].pc = "idle"

\* the "type" key of a dict that chat_stream yielded: the content, done and
\* error events carry it; the dict yielded for a refused role override has
\* the keys "error" and "timestamp" only
EventType(r) ==
    IF r.kind \in {"content", "done", "error"} THEN r.kind ELSE None

-----------------------------------------------------------------------------
(* Single-shot chat *)

chat(user_id, message, role_type, outs) ==
    \E p \in {PrepareTurn(user_id, message, role_type)},
       response \in {_make_request(outs)} :
    LET answered == ListAppend(p.contexts[user_id], "assistant", response.data)
    IN  /\ Idle(user_id)
        /\ current_role' = p.role
        /\ prompts_file' = p.file
        /\ UNCHANGED <<max_turns, truncate_mode, streams>>
        /\ IF p.kind = "invalid_role"
           THEN /\ ret' = Ret("chat", user_id, message, "error_invalid_role", "", None, 0)
                /\ UNCHANGED <<conversation_context, conversations_file>>
           ELSE IF p.kind = "exception"
           THEN /\ ret' = Ret("chat", user_id, message, "error_exception", "", p.role, 0)
                /\ UNCHANGED <<conversation_context, conversations_file>>
           ELSE IF response.raised
           THEN /\ conversation_context' = p.contexts
                /\ ret' = Ret("chat", user_id, message, "error_exception", "",
                              p.role, response.attempts)
                /\ UNCHANGED conversations_file
           ELSE IF ~response.success
           THEN /\ conversation_context' = p.contexts
                /\ ret' = Ret("chat", user_id, message, "error_backend", "",
                              None, response.attempts)
                /\ UNCHANGED conversations_file
           ELSE /\ conversation_context' = DictSet(p.contexts, user_id, answered)
                /\ conversations_file' =
                       save_conversation(conversations_file, user_id, answered)
                /\ ret' = Ret("chat", user_id, message, "response", response.data,
                              p.role, response.attempts)

-----------------------------------------------------------------------------
(* Streamed chat.  The generator runs from one network wait or yield to   *)
(* the next: the setup up to the streaming request, then one step per     *)
(* chunk received, then the completion.                                   *)

\* first pull: the shared steps and the streaming request (created: whether
\* the API call returned a stream or raised)
chat_stream_start(user_id, message, role_type, created) ==
    \E p \in {PrepareTurn(user_id, message, role_type)} :
        /\ Idle(user_id)
        /\ current_role' = p.role
        /\ prompts_file' = p.file
        /\ UNCHANGED <<max_turns, truncate_mode, conversations_file>>
        /\ IF p.kind = "invalid_role"
           THEN /\ ret' = Ret("chat_stream", user_id, message, "error_invalid_role", "",
                              None, 0)
                /\ UNCHANGED <<conversation_context, streams>>
           ELSE IF p.kind = "exception"
           THEN /\ ret' = Ret("chat_stream", user_id, message, "error", "", p.role, 0)
                /\ UNCHANGED <<conversation_context, streams>>
           ELSE /\ conversation_context' = p.contexts
                /\ IF created
                   THEN /\ streams' = [streams EXCEPT ![user_id] =
                               [pc |-> "open", full_response |-> "", frags |-> 0]]
                        /\ ret' = Ret("chat_stream", user_id, message, "pending", "", None, 1)
                   ELSE /\ UNCHANGED streams
                        /\ ret' = Ret("chat_stream", user_id, message, "error", "", p.role, 1)

\* the chunk step yielding the text accumulated so far in place of the
\* fragment it received
chat_stream_content_Merged(user_id, content) ==
    /\ streams[user_id].pc = "open"
    /\ streams[user_id].frags < MaxFrags
    /\ streams' = [streams EXCEPT
           ![user_id].full_response = streams[user_id].full_response \o content,
           ![user_id].frags = streams[user_id].frags + 1]
    /\ ret' = Ret("chat_stream", user_id, None, "content",
                  streams[user_id].full_response \o content, current_role, 0)
    /\ UNCHANGED <<conversation_context, current_role, max_turns, truncate_mode,
                   prompts_file, conversations_file>>

\* a chunk whose delta.content is not None arrives (a text or the empty
\* string): it is added to full_response and yielded
chat_stream_content(user_id, content) ==
    /\ streams[user_id].pc = "open"
    /\ streams[user_id].frags < MaxFrags
    /\ streams' = [streams EXCEPT
           ![user_id].full_response = streams[user_id].full_response \o content,
           ![user_id].frags = streams[user_id].frags + 1]
    /\ ret' = Ret("chat_stream", user_id, None, "content", content, current_role, 0)
    /\ UNCHANGED <<conversation_context, current_role, max_turns, truncate_mode,
                   prompts_file, conversations_file>>

\* a chunk whose delta.content is None arrives: nothing is yielded and the
\* generator asks for the next chunk (with nothing to observe, this is a
\* stuttering step of Spec)
chat_stream_skip(user_id) ==
    /\ streams[user_id].pc = "open"
    /\ UNCHANGED engine_vars

\* the end of the stream with the done event yielded first: the append and
\* the save are left for a pull that never comes
chat_stream_done_YieldFirst(user_id) ==
    /\ streams[user_id].pc = "open"
    /\ streams' = [streams EXCEPT ![user_id] = IdleStream]
    /\ ret' = Ret("chat_stream", user_id, None, "done", "", current_role, 0)
    /\ UNCHANGED <<conversation_context, current_role, max_turns, truncate_mode,
                   prompts_file, conversations_file>>

\* the stream ends: the assistant message is appended, the conversation
\* saved and the done event yielded
chat_stream_done(user_id) ==
    LET answered == ListAppend(conversation_context[user_id], "assistant",
                               streams[user_id].full_response)
    IN  /\ streams[user_id].pc = "open"
        /\ conversation_context' = DictSet(conversation_context, user_id, answered)
        /\ conversations_file' =
               save_conversation(conversations_file, user_id, answered)
        /\ streams' = [streams EXCEPT ![user_id] = IdleStream]
        /\ ret' = Ret("chat_stream", user_id, None, "done", "", current_role, 0)
        /\ UNCHANGED <<current_role, max_turns, truncate_mode, prompts_file>>

\* the failure of the stream with the text received so far kept as the
\* assistant message
chat_stream_error_KeepsPartial(user_id) ==
    /\ streams[user_id].pc = "open"
    /\ conversation_context' =
           DictSet(conversation_context, user_id,
                   ListAppend(conversation_context[user_id], "assistant",
                              streams[user_id].full_response))
    /\ streams' = [streams EXCEPT ![user_id] = IdleStream]
    /\ ret' = Ret("chat_stream", user_id, None, "error", "", current_role, 0)
    /\ UNCHANGED <<current_role, max_turns, truncate_mode,
                   prompts_file, conversations_file>>

\* reading the stream raises: the error event is yielded and nothing else
chat_stream_error(user_id) ==
    /\ streams[user_id].pc = "open"
    /\ streams' = [streams EXCEPT ![user_id] = IdleStream]
    /\ ret' = Ret("chat_stream", user_id, None, "error", "", current_role, 0)
    /\ UNCHANGED <<conversation_context, current_role, max_turns, truncate_mode,
                   prompts_file, conversations_file>>

\* the drop of the generator with the text received so far appended as the
\* assistant message and saved
chat_stream_close_SavesPartial(user_id) ==
    LET answered == ListAppend(conversation_context[user_id], "assistant",
                               streams[user_id].full_response)
    IN  /\ streams[user_id].pc = "open"
        /\ conversation_context' = DictSet(conversation_context, user_id, answered)
        /\ conversations_file' =
               save_conversation(conversations_file, user_id, answered)
        /\ streams' = [streams EXCEPT ![user_id] = IdleStream]
        /\ ret' = Ret("close", user_id, None, "closed", "", None, 0)
        /\ UNCHANGED <<current_role, max_turns, truncate_mode, prompts_file>>

\* the consumer drops the generator before a done or error event: close()
\* or garbage collection raises GeneratorExit at the yield, which the
\* `except Exception` of chat_stream does not catch
chat_stream_close(user_id) ==
    /\ streams[user_id].pc = "open"
    /\ streams' = [streams EXCEPT ![user_id] = IdleStream]
    /\ ret' = Ret("close", user_id, None, "closed", "", None, 0)
    /\ UNCHANGED <<conversation_context, current_role, max_turns, truncate_mode,
                   prompts_file, conversations_file>>

-----------------------------------------------------------------------------
(* The other entry points *)

\* a direct call of set_role; it raises when the prompt file is corrupt
SetRole(role_type) ==
    LET sr == set_role(prompts_file, role_type, current_role)
    IN  /\ current_role' = sr.role
        /\ prompts_file' = sr.file
        /\ ret' = Ret("set_role", None, None,
                      IF sr.raised THEN "raised" ELSE IF sr.ok THEN "True" ELSE "False",
                      "", None, 0)
        /\ UNCHANGED <<conversation_context, max_turns, truncate_mode,
                       conversations_file, streams>>

\* a direct call of load_prompt: the text returned, or the exception
LoadPrompt(prompt_name) ==
    LET lp == load_prompt(prompts_file, prompt_name)
    IN  /\ prompts_file' = lp.file
        /\ ret' = Ret("load_prompt", None, None,
                      IF lp.raised THEN "raised" ELSE "text", lp.text, None, 0)
        /\ UNCHANGED <<conversation_context, current_role, max_turns,
                       truncate_mode, conversations_file, streams>>

\* a direct call of list_available_roles: whether it returned a list or
\* raised (the names returned are list_available_roles(prompts_file).roles)
ListRoles ==
    LET lr == list_available_roles(prompts_file)
    IN  /\ prompts_file' = lr.file
        /\ ret' = Ret("list_available_roles", None, None,
                      IF lr.raised THEN "raised" ELSE "list", "", None, 0)
        /\ UNCHANGED <<conversation_context, current_role, max_turns,
                       truncate_mode, conversations_file, streams>>

\* a direct call of save_conversation
SaveConversation(user_id, conversation) ==
    /\ conversations_file' =
           save_conversation(conversations_file, user_id, conversation)
    /\ ret' = Ret("save_conversation", user_id, None, "None", "", None, 0)
    /\ UNCHANGED <<conversation_context, current_role, max_turns,
                   truncate_mode, prompts_file, streams>>

\* a direct call of get_conversation_history: whether it returned a list or
\* raised (the list is get_conversation_history(conversations_file, user_id))
GetHistory(user_id) ==
    /\ ret' = Ret("get_conversation_history", user_id, None,
                  IF get_conversation_history(conversations_file, user_id).raised
                  THEN "raised" ELSE "list", "", None, 0)
    /\ UNCHANGED <<conversation_context, current_role, max_turns,
                   truncate_mode, prompts_file, conversations_file, streams>>

\* the settings dicts callers pass: each key present or not, no validation
SettingsArgs ==
    {EmptyDict}
    \cup {[max_turns |-> n] : n \in TurnValues}
    \cup {[truncate_mode |-> m] : m \in Modes}
    \cup {[max_turns |-> n, truncate_mode |-> m] : n \in TurnValues, m \in Modes}

update_settings(settings) ==
    /\ max_turns' = IF "max_turns" \in DOMAIN settings
                    THEN settings["max_turns"] ELSE max_turns
    /\ truncate_mode' = IF "truncate_mode" \in DOMAIN settings
                        THEN settings["truncate_mode"] ELSE truncate_mode
    /\ ret' = Ret("update_settings", None, None, "None", "", None, 0)
    /\ UNCHANGED <<conversation_context, current_role, prompts_file,
                   conversations_file, streams>>

\* clear_context emptying the whole dict of contexts
clear_context_All(user_id) ==
    /\ Idle(user_id)
    /\ conversation_context' = EmptyDict
    /\ ret' = Ret("clear_context", user_id, None, "None", "", None, 0)
    /\ UNCHANGED <<current_role, max_turns, truncate_mode, prompts_file,
                   conversations_file, streams>>

clear_context(user_id) ==
    /\ Idle(user_id)
    /\ conversation_context' =
           IF user_id \in DOMAIN conversation_context
           THEN DictDel(conversation_context, user_id)
           ELSE conversation_context
    /\ ret' = Ret("clear_context", user_id, None, "None", "", None, 0)
    /\ UNCHANGED <<current_role, max_turns, truncate_mode, prompts_file,
                   conversations_file, streams>>

-----------------------------------------------------------------------------
(* The assistant after __init__, and its calls *)

NoRet == Ret("__init__", None, None, "None", "", None, 0)
NoProbe == [context |-> <<>>, result |-> <<>>, called |-> FALSE]

\* max_turns comes from config['conversation']['max_turns'], which __init__
\* reads without validation
EngineInit ==
    /\ conversation_context = EmptyDict
    /\ current_role = "default"
    /\ max_turns \in TurnValues
    /\ truncate_mode = "sliding"
    /\ prompts_file \in PromptFiles
    /\ conversations_file = FileMissing
    /\ streams = [u \in Users |-> IdleStream]
    /\ ret = NoRet

Init == EngineInit /\ calls = 0 /\ history = <<>> /\ probe = NoProbe

\* a caller makes one more call, or pulls one more event from a stream
Call ==
    /\ calls < MaxCalls
    /\ calls' = calls + 1
    /\ UNCHANGED <<history, probe>>

Next ==
    \/ \E u \in Users, m \in Messages, r \in RoleArgs \cup {None},
          outs \in BackendScripts :
          chat(u, m, r, outs) /\ Call
    \/ \E u \in Users, m \in Messages, r \in RoleArgs \cup {None},
          created \in BOOLEAN :
          chat_stream_start(u, m, r, created) /\ Call
    \/ \E u \in Users, f \in Fragments : chat_stream_content(u, f) /\ Call
    \/ \E u \in Users : chat_stream_done(u) /\ Call
    \/ \E u \in Users : chat_stream_error(u) /\ Call
    \/ \E u \in Users : chat_stream_close(u) /\ Call
    \/ \E r \in RoleArgs : SetRole(r) /\ Call
    \/ \E s \in SettingsArgs : update_settings(s) /\ Call
    \/ \E u \in Users : clear_context(u) /\ Call

Spec == Init /\ [][Next]_vars

-----------------------------------------------------------------------------
(* Direct calls of _truncate_context on arbitrary well-formed contexts *)

\* the messages a context holds after its system message
ProbeContents == {"a", "b"}
TailMessages ==
    {[role |-> r, content |-> c] : r \in {"user", "assistant"}, c \in ProbeContents}

\* a context of distinct dicts: a system message, then the given messages
MkContext(tail) ==
    [i \in 1..(Len(tail) + 1) |->
        IF i = 1
        THEN [role |-> "system", content |-> StoredText("default"), oid |-> 1]
        ELSE [role |-> tail[i - 1].role, content |-> tail[i - 1].content,
              oid |-> i]]

ProbeContexts ==
    {MkContext(t) : t \in UNION {[1..n -> TailMessages] : n \in 0..(MaxProbeLen - 1)}}

TruncInit ==
    /\ conversation_context = EmptyDict
    /\ current_role = "default"
    /\ max_turns \in ProbeTurnValues
    /\ truncate_mode \in Modes
    /\ prompts_file = FileMissing
    /\ conversations_file = FileMissing
    /\ streams = [u \in Users |-> IdleStream]
    /\ ret = NoRet
    /\ calls = 0
    /\ history = <<>>
    /\ \E c \in ProbeContexts :
          probe = [context |-> c, result |-> <<>>, called |-> FALSE]

TruncateCall ==
    /\ ~probe.called
    /\ probe' = [probe EXCEPT !.result = _truncate_context(probe.context),
                              !.called = TRUE]
    /\ UNCHANGED <<engine_vars, calls, history>>

TruncNext == TruncateCall

SpecTrunc == TruncInit /\ [][TruncNext]_vars

-----------------------------------------------------------------------------
(* The scripted scenario: one user, a fresh assistant, successful single-  *)
(* shot turns against a stubbed backend                                    *)

\* most turns of the scenario
MaxScenarioTurns == 4
\* largest max_turns the scenario is configured with
MaxScenarioLimit == 2

ScenarioUser == "u1"
ScenarioMessages == {"a", "b", "c"}

\* the stubbed backend: the reply to a message is its capital letter
StubReply(message) ==
    IF message = "a" THEN "A" ELSE IF message = "b" THEN "B" ELSE "C"

ScenarioInit ==
    /\ conversation_context = EmptyDict
    /\ current_role = "default"
    /\ max_turns \in 1..MaxScenarioLimit
    /\ truncate_mode = "sliding"
    /\ prompts_file = FileMissing
    /\ conversations_file = FileMissing
    /\ streams = [u \in Users |-> IdleStream]
    /\ ret = NoRet
    /\ calls = 0
    /\ history = <<>>
    /\ probe = NoProbe

ScenarioTurn ==
    \E m \in ScenarioMessages :
        /\ calls < MaxScenarioTurns
        /\ chat(ScenarioUser, m, None, Script(0, StubReply(m)))
        /\ calls' = calls + 1
        /\ history' = Append(history, [message |-> m, reply |-> StubReply(m)])
        /\ UNCHANGED probe

ScenarioNext == ScenarioTurn

SpecScenario == ScenarioInit /\ [][ScenarioNext]_vars

-----------------------------------------------------------------------------
(* One streamed turn of one user, observed by its consumer: the fragments  *)
(* the backend sent and the events the generator yielded, in the order in  *)
(* which they happened                                                     *)

\* most steps of the observed behaviour
MaxStreamSteps == 5

StreamUser == "u1"
\* the message of the streamed turn
StreamMessage == "b"
\* delta.content of the chunks that carry one: texts and the empty string
StreamFragments == {"x", "y", ""}
\* the role overrides of the streamed turn: none, a stored one, an unknown one
StreamRoles == {None, "code", "bogus"}

\* what the consumer's side records: a fragment received from the backend
\* (text None: a chunk without content) or an event taken from the generator
Fragment(text) == [what |-> "fragment", type |-> None, text |-> text]
Event(r) == [what |-> "event", type |-> EventType(r), text |-> r.text]

StreamInit ==
    /\ conversation_context = EmptyDict
    /\ current_role = "default"
    /\ max_turns = 1
    /\ truncate_mode \in Modes
    /\ prompts_file = FileMissing
    /\ conversations_file = FileMissing
    /\ streams = [u \in Users |-> IdleStream]
    /\ ret = NoRet
    /\ calls = 0
    /\ history = <<>>
    /\ probe = NoProbe

StreamStep ==
    /\ calls < MaxStreamSteps
    /\ calls' = calls + 1

\* a single-shot turn of the user before the stream
StreamPrior ==
    /\ ~probe.called
    /\ \E outs \in BackendScripts : chat(StreamUser, "a", None, outs)
    /\ StreamStep
    /\ UNCHANGED <<history, probe>>

\* the first pull; probe keeps the contexts, the log and the message of
\* the moment the turn began
StreamStart ==
    /\ ~probe.called
    /\ \E r \in StreamRoles, created \in BOOLEAN :
           chat_stream_start(StreamUser, StreamMessage, r, created)
    /\ StreamStep
    /\ history' = IF ret'.kind = "pending" THEN <<>> ELSE <<Event(ret')>>
    /\ probe' = [context |-> conversation_context, result |-> conversations_file,
                 called |-> TRUE]

StreamContent ==
    /\ \E content \in StreamFragments :
           /\ chat_stream_content(StreamUser, content)
           /\ history' = history \o <<Fragment(content), Event(ret')>>
    /\ StreamStep
    /\ UNCHANGED probe

StreamSkip ==
    /\ chat_stream_skip(StreamUser)
    /\ StreamStep
    /\ history' = Append(history, Fragment(None))
    /\ UNCHANGED probe

StreamDone ==
    /\ chat_stream_done(StreamUser)
    /\ StreamStep
    /\ history' = Append(history, Event(ret'))
    /\ UNCHANGED probe

StreamError ==
    /\ chat_stream_error(StreamUser)
    /\ StreamStep
    /\ history' = Append(history, Event(ret'))
    /\ UNCHANGED probe

StreamClose ==
    /\ chat_stream_close(StreamUser)
    /\ StreamStep
    /\ UNCHANGED <<history, probe>>

\* a single-shot turn of the user after the stream is over
StreamLater ==
    /\ probe.called
    /\ \E outs \in BackendScripts : chat(StreamUser, "a", None, outs)
    /\ StreamStep
    /\ UNCHANGED <<history, probe>>

StreamNext ==
    \/ StreamPrior
    \/ StreamStart
    \/ StreamContent
    \/ StreamSkip
    \/ StreamDone
    \/ StreamError
    \/ StreamClose
    \/ StreamLater

SpecStream == StreamInit /\ [][StreamNext]_vars

-----------------------------------------------------------------------------
(* Direct calls of the prompt store's operations on arbitrary store files *)

\* most calls made on one store
MaxStoreCalls == 2

\* the role names a store file may hold
StoreNames == {"default", "code", "creative"}
\* the names callers ask for: stored ones and one no store holds
StoreArgs == StoreNames \cup {"bogus"}

\* the store files: none, unparsable JSON, and a JSON object holding any
\* subset of the names
StoreFiles ==
    {FileMissing, FileCorrupt}
    \cup {FileOf([name \in held |-> StoredText(name)]) : held \in SUBSET StoreNames}

StoreInit ==
    /\ conversation_context = EmptyDict
    /\ current_role = "default"
    /\ max_turns = 1
    /\ truncate_mode = "sliding"
    /\ prompts_file \in StoreFiles
    /\ conversations_file = FileMissing
    /\ streams = [u \in Users |-> IdleStream]
    /\ ret = NoRet
    /\ calls = 0
    /\ history = <<>>
    /\ probe = NoProbe

StoreCall ==
    /\ calls < MaxStoreCalls
    /\ calls' = calls + 1
    /\ UNCHANGED history

\* the caller of list_available_roles keeps the store file it was called on
\* and the names it returned
StoreNext ==
    \/ \E r \in StoreArgs : SetRole(r) /\ StoreCall /\ UNCHANGED probe
    \/ \E n \in StoreArgs : LoadPrompt(n) /\ StoreCall /\ UNCHANGED probe
    \/ /\ ListRoles
       /\ StoreCall
       /\ probe' = [context |-> prompts_file,
                    result |-> list_available_roles(prompts_file).roles,
                    called |-> TRUE]

SpecStore == StoreInit /\ [][StoreNext]_vars

-----------------------------------------------------------------------------
(* Direct calls of the conversation log's operations on arbitrary log      *)
(* files                                                                   *)

\* most calls made on one log
MaxLogCalls == 2
\* most snapshots a user has in the log file the calls start on
MaxLogSnapshots == 2

\* the conversations saved: a lone system message, a full turn, and a
\* context whose elements 0 and 1 are the same dict
LogContexts ==
    LET turn == MkContext(<<[role |-> "user", content |-> "a"],
                            [role |-> "assistant", content |-> "b"]>>)
    IN  {MkContext(<<>>), turn, TruncateWith(turn, 0, "sliding")}

\* the snapshot lists a log file may hold for a user
LogSnapshots ==
    UNION {[1..n -> {[messages |-> ToJson(c)] : c \in LogContexts}] :
               n \in 0..MaxLogSnapshots}

\* the log files: none, unparsable JSON, and a JSON object holding snapshot
\* lists for any of the users
LogFiles ==
    {FileMissing, FileCorrupt}
    \cup {FileOf(d) : d \in UNION {[held -> LogSnapshots] : held \in SUBSET Users}}

LogInit ==
    /\ conversation_context = EmptyDict
    /\ current_role = "default"
    /\ max_turns = 1
    /\ truncate_mode = "sliding"
    /\ prompts_file = FileMissing
    /\ conversations_file \in LogFiles
    /\ streams = [u \in Users |-> IdleStream]
    /\ ret = NoRet
    /\ calls = 0
    /\ history = <<>>
    /\ probe = NoProbe

LogCall ==
    /\ calls < MaxLogCalls
    /\ calls' = calls + 1

\* the caller keeps the conversation it saved and the log file it saved it
\* to, and the list the history call returned
LogNext ==
    \/ \E u \in Users, c \in LogContexts :
          /\ SaveConversation(u, c)
          /\ LogCall
          /\ history' = Append(history, conversations_file)
          /\ probe' = [context |-> c, result |-> <<>>, called |-> FALSE]
    \/ \E u \in Users :
          /\ GetHistory(u)
          /\ LogCall
          /\ probe' = [probe EXCEPT
                 !.result = get_conversation_history(conversations_file, u).snapshots,
                 !.called = TRUE]
          /\ UNCHANGED history

SpecLog == LogInit /\ [][LogNext]_vars

-----------------------------------------------------------------------------
(* Two users taking turns on one assistant, with the settings changed and  *)
(* contexts cleared in between; the caller's side keeps the last two calls *)
(* that were made                                                          *)

\* most calls and stream pulls made
MaxTurnsCalls == 3

\* a call as the caller's side records it: the operation, the user and
\* the role_type it was made with (None where the call has no such argument)
CallRec(op, user_id, role_type) ==
    [op |-> op, user |-> user_id, role_type |-> role_type]

\* the role overrides of the turns: none, a stored role, an unknown one
TurnsRoles == {None, "code", "bogus"}
\* the backend answers at once, or fails at every attempt
TurnsScripts == {Script(down, reply) : down \in {0, StopAfterAttempt}, reply \in Replies}

TurnsInit ==
    /\ conversation_context = EmptyDict
    /\ current_role = "default"
    /\ max_turns \in TurnValues
    /\ truncate_mode = "sliding"
    /\ prompts_file = FileMissing
    /\ conversations_file = FileMissing
    /\ streams = [u \in Users |-> IdleStream]
    /\ ret = NoRet
    /\ calls = 0
    /\ history = <<>>
    /\ probe = NoProbe

\* one more call is made and recorded after the one before it
TurnsCall(rec) ==
    /\ calls < MaxTurnsCalls
    /\ calls' = calls + 1
    /\ history' = IF history = <<>> THEN <<rec>>
                  ELSE <<history[Len(history)], rec>>
    /\ UNCHANGED probe

TurnsNext ==
    \/ \E u \in Users, m \in Messages, r \in TurnsRoles, outs \in TurnsScripts :
          chat(u, m, r, outs) /\ TurnsCall(CallRec("chat", u, r))
    \/ \E u \in Users, m \in Messages, r \in TurnsRoles, created \in BOOLEAN :
          chat_stream_start(u, m, r, created)
              /\ TurnsCall(CallRec("chat_stream", u, r))
    \/ \E u \in Users, f \in Fragments :
          chat_stream_content(u, f) /\ TurnsCall(CallRec("next", u, None))
    \/ \E u \in Users :
          chat_stream_done(u) /\ TurnsCall(CallRec("next", u, None))
    \/ \E s \in SettingsArgs :
          update_settings(s) /\ TurnsCall(CallRec("update_settings", None, None))
    \/ \E u \in Users :
          clear_context(u) /\ TurnsCall(CallRec("clear_context", u, None))

SpecTurns == TurnsInit /\ [][TurnsNext]_vars

-----------------------------------------------------------------------------
(* Long runs of turns under a fixed max_turns >= 1: single-shot and        *)
(* streamed turns of the users, one call at a time, each succeeding or     *)
(* failing at the backend                                                  *)

\* most calls and stream pulls of a run
MaxBoundCalls == 6
\* largest max_turns a run is configured with
MaxBoundTurns == 2

\* the record of a run: empty while every call has succeeded
SomeCallFailed == <<"failed">>

BoundInit ==
    /\ conversation_context = EmptyDict
    /\ current_role = "default"
    /\ max_turns \in 1..MaxBoundTurns
    /\ truncate_mode \in Modes
    /\ prompts_file = FileMissing
    /\ conversations_file = FileMissing
    /\ streams = [u \in Users |-> IdleStream]
    /\ ret = NoRet
    /\ calls = 0
    /\ history = <<>>
    /\ probe = NoProbe

\* one more call, made when no other call is in flight; the run's record
\* notes a call that returned or yielded an error
BoundCall(user_id) ==
    /\ calls < MaxBoundCalls
    /\ calls' = calls + 1
    /\ \A v \in Users \ {user_id} : Idle(v)
    /\ history' = IF ret'.kind \in {"error_backend", "error"}
                  THEN SomeCallFailed ELSE history
    /\ UNCHANGED probe

BoundNext ==
    \/ \E u \in Users, m \in Messages, outs \in TurnsScripts :
          chat(u, m, None, outs) /\ BoundCall(u)
    \/ \E u \in Users, m \in Messages, created \in BOOLEAN :
          chat_stream_start(u, m, None, created) /\ BoundCall(u)
    \/ \E u \in Users, f \in Fragments : chat_stream_content(u, f) /\ BoundCall(u)
    \/ \E u \in Users : chat_stream_done(u) /\ BoundCall(u)
    \/ \E u \in Users : chat_stream_error(u) /\ BoundCall(u)

SpecBound == BoundInit /\ [][BoundNext]_vars

-----------------------------------------------------------------------------
(* Properties.  Contexts are compared by their JSON value (roles and      *)
(* contents) unless the identity of the dicts is the point.               *)

\* turns = (len(context) - 1) // 2
Turns(context) == (Len(context) - 1) \div 2

Min(a, b) == IF a < b THEN a ELSE b

\* the user and assistant messages of a sequence of (message, reply) turns
RECURSIVE TurnMessages(_)
TurnMessages(turns) ==
    IF turns = <<>> THEN <<>>
    ELSE <<[role |-> "user", content |-> Head(turns).message],
           [role |-> "assistant", content |-> Head(turns).reply]>>
         \o TurnMessages(Tail(turns))

\* the last n turns of a sequence of turns
LastTurns(turns, n) == SubSeq(turns, Len(turns) - n + 1, Len(turns))

\* the system message of the scenario: the built-in default prompt
ScenarioSystem == [role |-> "system", content |-> default_prompts["default"]]

ScenarioContext == ToJson(conversation_context[ScenarioUser])

\* C1, as claimed: from a fresh store in sliding mode, after max_turns + 1
\* successful turns of one user the context is the system message followed
\* by the messages of the most recent max_turns turns (1 + 2 * max_turns
\* elements), the oldest turn having been dropped.
C1_OldestDroppedAfterLimitPlusOne ==
    Len(history) = max_turns + 1 =>
        ScenarioContext =
            <<ScenarioSystem>> \o TurnMessages(LastTurns(history, max_turns))

\* C1, amended: from a fresh store in sliding mode, after n >= 1 successful
\* turns of one user the context is the system message followed by the
\* messages of the most recent min(n, max_turns + 1) turns.  After
\* max_turns + 1 turns it has 1 + 2 * (max_turns + 1) elements and no turn
\* has been dropped; the oldest turn goes during turn max_turns + 2.
C1_KeepsLimitPlusOneTurns ==
    Len(history) >= 1 =>
        ScenarioContext =
            <<ScenarioSystem>>
            \o TurnMessages(LastTurns(history, Min(Len(history), max_turns + 1)))

\* the spec's scenario (max_turns = 2, messages a, b, c) and one turn more,
\* the turn that drops a/A
C1_Witness ==
    /\ max_turns = 2
    /\ Len(history) = 4
    /\ SubSeq(history, 1, 3) = <<[message |-> "a", reply |-> "A"],
                                 [message |-> "b", reply |-> "B"],
                                 [message |-> "c", reply |-> "C"]>>
    /\ Len(conversation_context[ScenarioUser]) = 7

\* C2: for every context and every max_turns, if turns <= max_turns then
\* _truncate_context returns the context unchanged (the same dicts in the
\* same order), in sliding and in clear mode.
C2_NoOpWithinLimit ==
    (probe.called /\ Turns(probe.context) <= max_turns) =>
        probe.result = probe.context

\* a context of exactly max_turns = 2 turns went through _truncate_context
C2_Witness ==
    /\ probe.called
    /\ max_turns = 2
    /\ Len(probe.context) = 5
    /\ probe.result = probe.context

\* C3, as claimed, for every max_turns >= 0: in sliding mode a context with
\* turns > max_turns comes back with length 1 + max_turns * 2, its element 0
\* the original element 0 and its other elements the last max_turns * 2
\* entries of the original, in order.
C3_SlidingWindow ==
    (/\ probe.called
     /\ truncate_mode = "sliding"
     /\ max_turns >= 0
     /\ Turns(probe.context) > max_turns) =>
        LET n == Len(probe.context)
            w == max_turns * 2
        IN  /\ Len(probe.result) = 1 + w
            /\ ToJson(probe.result)[1] = ToJson(probe.context)[1]
            /\ \A i \in 1..w :
                  ToJson(probe.result)[1 + i] = ToJson(probe.context)[n - w + i]

\* C4: in clear mode a context with turns > max_turns comes back as the
\* one-element list of its element 0, the system message.
C4_ClearKeepsSystemOnly ==
    (/\ probe.called
     /\ truncate_mode = "clear"
     /\ Turns(probe.context) > max_turns) =>
        probe.result = <<probe.context[1]>>

\* a context of two turns and a dangling message was cleared under
\* max_turns = 1
C4_Witness ==
    /\ probe.called
    /\ truncate_mode = "clear"
    /\ max_turns = 1
    /\ Len(probe.context) = 6
    /\ Len(probe.result) = 1

\* the prompt text of the active role, as the next turn would load it
ActivePrompt == load_prompt(prompts_file, current_role)

\* C5, as claimed: when the active role has changed since a user's last
\* turn, the refresh step of that user's next turn writes the new prompt
\* into element 0 and changes nothing else: the length and every element at
\* an index >= 1 stay as they were.
C5_RefreshWritesElementZeroOnly ==
    \A u \in DOMAIN conversation_context :
        LET context == conversation_context[u]
            refreshed == RefreshContext(conversation_context, u, ActivePrompt.text)
        IN  (~ActivePrompt.raised /\ ActivePrompt.text # context[1].content) =>
                /\ Len(refreshed) = Len(context)
                /\ refreshed[1].content = ActivePrompt.text
                /\ \A i \in 2..Len(context) : refreshed[i] = context[i]

\* C6, as claimed: every existing context is non-empty, has a system
\* message at index 0 and no system message at any other index.
C6_OneSystemMessageAtZero ==
    \A u \in DOMAIN conversation_context :
        LET context == conversation_context[u]
        IN  /\ Len(context) >= 1
            /\ context[1].role = "system"
            /\ \A i \in 2..Len(context) : context[i].role # "system"

\* C7, as claimed: after the system message the messages of every context
\* alternate user, assistant, user, assistant, ..., starting with user.
C7_TurnsAlternate ==
    \A u \in DOMAIN conversation_context :
        LET context == conversation_context[u]
        IN  \A i \in 2..Len(context) :
                context[i].role = IF i % 2 = 0 THEN "user" ELSE "assistant"

\* the role override is a name that differs from the active role and is not
\* a key of the (readable or bootstrapped) prompt store
AbsentOverride(role_type) ==
    /\ role_type # None
    /\ role_type # current_role
    /\ ~_load_prompts(prompts_file).raised
    /\ role_type \notin DOMAIN _load_prompts(prompts_file).prompts

\* C8: a chat or chat_stream call whose role override differs from the
\* active role and is not in the prompt store yields the invalid-role error,
\* and a call that yields it leaves the context map, the active role, the
\* conversation log and the streams as they were and never calls the
\* completion backend.
C8_InvalidRoleAborts ==
    [][/\ \A u \in Users, m \in Messages, r \in RoleArgs :
            (/\ AbsentOverride(r)
             /\ \/ \E outs \in BackendScripts : chat(u, m, r, outs)
                \/ \E created \in BOOLEAN : chat_stream_start(u, m, r, created))
            => ret'.kind = "error_invalid_role"
       /\ ret'.kind = "error_invalid_role" =>
            /\ conversation_context' = conversation_context
            /\ current_role' = current_role
            /\ conversations_file' = conversations_file
            /\ streams' = streams
            /\ ret'.attempts = 0
      ]_vars

\* a stream was refused for its role while both users had a context and the
\* log held a snapshot
C8_Witness ==
    /\ ret.op = "chat_stream"
    /\ ret.kind = "error_invalid_role"
    /\ DOMAIN conversation_context = Users
    /\ conversations_file.state = "ok"

\* C9, as claimed: single-shot chat returns the backend error only after
\* the backend has been attempted 3 times.
C9_ErrorOnlyAfterAllAttempts ==
    (ret.op = "chat" /\ ret.kind = "error_backend") =>
        ret.attempts = StopAfterAttempt

\* C10: when the backend call of a single-shot chat fails, the call returns
\* the error, the user's context is the truncated refreshed context followed
\* by the new user message (and no assistant message), every other context
\* is as it was, and nothing is written to the log.
C10_FailedCallKeepsUserMessage ==
    [][(ret'.op = "chat" /\ ret'.kind = "error_backend") =>
          LET u == ret'.user
              prompt == load_prompt(prompts_file', current_role')
              refreshed == RefreshContext(conversation_context, u, prompt.text)
              truncated == TruncateWith(refreshed, max_turns, truncate_mode)
          IN  /\ DOMAIN conversation_context' = DOMAIN conversation_context \cup {u}
              /\ ToJson(conversation_context'[u]) =
                     Append(ToJson(truncated),
                            [role |-> "user", content |-> ret'.message])
              /\ \A v \in DOMAIN conversation_context \ {u} :
                     conversation_context'[v] = conversation_context[v]
              /\ conversations_file' = conversations_file
      ]_vars

\* the third turn of a user failed at the backend after the truncation had
\* dropped the first turn (max_turns = 1, two snapshots in the log)
C10_Witness ==
    /\ ret.op = "chat"
    /\ ret.kind = "error_backend"
    /\ max_turns = 1
    /\ truncate_mode = "sliding"
    /\ conversations_file.state = "ok"
    /\ ret.user \in DOMAIN conversations_file.data
    /\ Len(conversations_file.data[ret.user]) = 2
    /\ Len(conversation_context[ret.user]) = 4

\* the snapshots the log holds for a user (none when the file or the key
\* is absent)
SnapshotsOf(file, user_id) ==
    IF file.state = "ok" /\ user_id \in DOMAIN file.data
    THEN file.data[user_id] ELSE <<>>

\* C11: when the backend call of a single-shot chat succeeds, the user's
\* context ends with the user message and the assistant message holding the
\* returned text, exactly one snapshot is added at the end of the user's
\* list in the log and its messages are that full context, every other
\* user's list is as it was, and the result carries the returned text and
\* the active role.
C11_SuccessAppendsAndSaves ==
    [][(ret'.op = "chat" /\ ret'.kind = "response") =>
          LET u == ret'.user
              context == ToJson(conversation_context'[u])
              n == Len(context)
          IN  /\ n >= 3
              /\ context[n - 1] = [role |-> "user", content |-> ret'.message]
              /\ context[n] = [role |-> "assistant", content |-> ret'.text]
              /\ \E r \in RoleArgs \cup {None}, outs \in BackendScripts :
                     /\ outs[1] = ret'.text
                     /\ chat(u, ret'.message, r, outs)
              /\ SnapshotsOf(conversations_file', u) =
                     Append(SnapshotsOf(conversations_file, u),
                            [messages |-> context])
              /\ \A v \in Users \ {u} :
                     SnapshotsOf(conversations_file', v) =
                         SnapshotsOf(conversations_file, v)
              /\ ret'.current_role = current_role'
      ]_vars

\* the second successful turn of a user whose first turn is in the log,
\* made with a role override, while the other user has a snapshot too
C11_Witness ==
    /\ ret.op = "chat"
    /\ ret.kind = "response"
    /\ ret.current_role = "code"
    /\ Len(SnapshotsOf(conversations_file, ret.user)) = 2
    /\ \E v \in Users \ {ret.user} : Len(SnapshotsOf(conversations_file, v)) = 1

\* the events the consumer of the streamed turn has taken, in order
StreamEvents == SelectSeq(history, LAMBDA h : h.what = "event")

\* the terminal event types
Terminal == {"done", "error"}

\* C12, as claimed: every event chat_stream produces has a type among
\* content, done and error (the event of a rejected role override
\* included); the events before the last one are content events; while the
\* generator is suspended no terminal event has been produced, and a
\* terminal event leaves it finished.
C12_EventsTypedAndTerminal ==
    /\ \A i \in 1..Len(StreamEvents) :
          StreamEvents[i].type \in {"content"} \cup Terminal
    /\ \A i \in 1..(Len(StreamEvents) - 1) : StreamEvents[i].type = "content"
    /\ ~Idle(StreamUser) =>
          \A i \in 1..Len(StreamEvents) : StreamEvents[i].type = "content"

\* the texts of the content events the consumer has taken, in order
ContentTexts ==
    LET contents == SelectSeq(StreamEvents, LAMBDA e : e.type = "content")
    IN  [i \in 1..Len(contents) |-> contents[i].text]

\* the texts of the fragments received that pass the test, in order
FragmentTexts(Test(_)) ==
    LET kept == SelectSeq(history, LAMBDA h : h.what = "fragment" /\ Test(h.text))
    IN  [i \in 1..Len(kept) |-> kept[i].text]

NotNone(text) == text # None
NonEmpty(text) == text # None /\ text # ""

\* every fragment that passes the test is followed at once, before the next
\* fragment is received, by the content event that carries its text
HandedOverAtOnce(Test(_)) ==
    \A k \in 1..Len(history) :
        (history[k].what = "fragment" /\ Test(history[k].text)) =>
            /\ k < Len(history)
            /\ history[k + 1].what = "event"
            /\ history[k + 1].type = "content"
            /\ history[k + 1].text = history[k].text

\* C13, as claimed: the content events are, one for one and in arrival
\* order, the non-empty fragments received (fragments that carry a text
\* other than the empty string), each handed to the consumer before the next
\* fragment is requested.
C13_OneEventPerNonEmptyFragment ==
    /\ ContentTexts = FragmentTexts(NonEmpty)
    /\ HandedOverAtOnce(NonEmpty)

\* C13, amended: the content events are, one for one and in arrival order,
\* the fragments received whose content is not None, the empty string
\* included; each is handed to the consumer before the next fragment is
\* requested, and a chunk without content produces no event.
C13_OneEventPerFragmentWithContent ==
    /\ ContentTexts = FragmentTexts(NotNone)
    /\ HandedOverAtOnce(NotNone)

\* a stream that sent "x", a chunk without content and "y", and was then
\* completed
C13_Witness ==
    /\ ContentTexts = <<"x", "y">>
    /\ Len(SelectSeq(history, LAMBDA h : h.what = "fragment")) = 3
    /\ Len(StreamEvents) = 3
    /\ StreamEvents[3].type = "done"

\* the texts of a sequence joined in order
RECURSIVE Concat(_)
Concat(texts) ==
    IF texts = <<>> THEN "" ELSE Head(texts) \o Concat(Tail(texts))

\* C14: when a stream completes normally, the step that produces the done
\* event leaves the user's context extended by one assistant message whose
\* content is the in-order concatenation of the texts of the stream's
\* content events, and the log extended by one snapshot of that full
\* context: both are in place when the consumer receives done.
C14_DoneAfterAppendAndSave ==
    [][(ret'.op = "chat_stream" /\ ret'.kind = "done") =>
          LET u == ret'.user
              context == ToJson(conversation_context'[u])
          IN  /\ context =
                     Append(ToJson(conversation_context[u]),
                            [role |-> "assistant", content |-> Concat(ContentTexts)])
              /\ SnapshotsOf(conversations_file', u) =
                     Append(SnapshotsOf(conversations_file, u),
                            [messages |-> context])
      ]_vars

\* a stream of the fragments "x" and "y" completed after an earlier
\* single-shot turn of the user
C14_Witness ==
    /\ ret.op = "chat_stream"
    /\ ret.kind = "done"
    /\ ContentTexts = <<"x", "y">>
    /\ conversation_context[StreamUser][Len(conversation_context[StreamUser])].content = "xy"
    /\ Len(SnapshotsOf(conversations_file, StreamUser)) = 2

\* the context of the streamed turn's user as the turn's setup leaves it:
\* the context of the moment the turn began (kept in probe), refreshed with
\* the prompt of the role in force, truncated, and the user message appended
StreamContextAfterSetup(pre, role) ==
    LET prompt == load_prompt(FileOf(default_prompts), role).text
        refreshed == RefreshContext(pre, StreamUser, prompt)
        truncated == TruncateWith(refreshed, max_turns, truncate_mode)
    IN  Append(ToJson(truncated), [role |-> "user", content |-> StreamMessage])

\* C15: when a streamed turn fails at the backend, at the streaming request
\* or after any number of fragments, the step produces an error event and
\* ends the iteration; the user's context is the pre-stream context
\* (refreshed and truncated) followed by the user message, with no
\* assistant message, and the log is as it was when the turn began.
C15_FailedStreamKeepsUserMessageOnly ==
    [][(ret'.op = "chat_stream" /\ ret'.kind = "error") =>
          /\ EventType(ret') = "error"
          /\ streams'[StreamUser] = IdleStream
          /\ ToJson(conversation_context'[StreamUser]) =
                 StreamContextAfterSetup(probe'.context, current_role')
          /\ conversations_file' = probe'.result
      ]_vars

\* a stream failed after the fragments "x" and "y", after an earlier
\* single-shot turn of the user
C15_Witness ==
    /\ ret.op = "chat_stream"
    /\ ret.kind = "error"
    /\ ContentTexts = <<"x", "y">>
    /\ Len(conversation_context[StreamUser]) = 4
    /\ Len(SnapshotsOf(conversations_file, StreamUser)) = 1

\* the streamed turn was begun and dropped: its generator is gone and the
\* consumer has taken nothing but content events
Abandoned ==
    /\ probe.called
    /\ Idle(StreamUser)
    /\ \A i \in 1..Len(StreamEvents) : StreamEvents[i].type = "content"

\* in a sequence of messages, the user message of the streamed turn is
\* never followed by an assistant message
NoReplyToStream(messages) ==
    \A i \in 1..(Len(messages) - 1) :
        (messages[i].role = "user" /\ messages[i].content = StreamMessage) =>
            messages[i + 1].role # "assistant"

\* C16: the step in which the consumer drops a stream before a done or
\* error event changes neither the contexts nor the log; and from then on,
\* whatever turns follow, neither the user's context nor any snapshot in
\* the log holds an assistant message for the dropped stream.
C16_AbandonedStreamLeavesNoReply ==
    [][/\ ret'.kind = "closed" =>
             /\ conversation_context' = conversation_context
             /\ conversations_file' = conversations_file
       /\ Abandoned' =>
             /\ NoReplyToStream(conversation_context'[StreamUser])
             /\ \A k \in 1..Len(SnapshotsOf(conversations_file', StreamUser)) :
                   NoReplyToStream(
                       SnapshotsOf(conversations_file', StreamUser)[k].messages)
      ]_vars

\* a stream dropped after the fragment "x", followed by a successful
\* single-shot turn of the same user
C16_Witness ==
    /\ Abandoned
    /\ ContentTexts = <<"x">>
    /\ ret.op = "chat"
    /\ ret.kind = "response"
    /\ Len(SnapshotsOf(conversations_file, StreamUser)) = 1

\* the names the prompt store holds: the keys of the file, the built-in
\* set when the file is absent (it is written at the first read), and none
\* when the file cannot be parsed
StoreKeys(file) ==
    IF file.state = "ok" THEN DOMAIN file.data
    ELSE IF file.state = "missing" THEN DOMAIN default_prompts
    ELSE {}

\* C17, as claimed: set_role(name) with a name the prompt store does not
\* hold returns False, without raising, and leaves the active role as it
\* was; with a name the store holds it returns True and makes the name the
\* active role.
C17_SetRoleReportsAndNeverRaises ==
    [][\A name \in StoreArgs :
          SetRole(name) =>
              IF name \in StoreKeys(prompts_file)
              THEN ret'.kind = "True" /\ current_role' = name
              ELSE ret'.kind = "False" /\ current_role' = current_role
      ]_vars

\* the text the prompt store holds under a name it holds
StoreText(file, name) ==
    IF file.state = "ok" THEN file.data[name] ELSE default_prompts[name]

\* C18, as claimed: for every content of the prompt store (a file holding
\* any set of names, or no file, which is the built-in set), load_prompt(name)
\* returns the text stored under name when the store holds name, and the
\* text stored under "default" when it does not.
C18_LoadPromptReturnsStoredOrDefault ==
    [][\A name \in StoreArgs :
          (prompts_file.state # "corrupt" /\ LoadPrompt(name)) =>
              IF name \in StoreKeys(prompts_file)
              THEN /\ ret'.kind = "text"
                   /\ ret'.text = StoreText(prompts_file, name)
              ELSE "default" \in StoreKeys(prompts_file) =>
                       /\ ret'.kind = "text"
                       /\ ret'.text = StoreText(prompts_file, "default")
      ]_vars

\* C19: list_available_roles never raises; on a store that can be read (a
\* file holding any set of names, or no file, which is the built-in set) it
\* returns all the keys, and on a file that cannot be parsed it returns
\* exactly ["default"].
C19_ListRolesNeverRaises ==
    [][ret'.op = "list_available_roles" =>
          /\ ret'.kind = "list"
          /\ probe'.context = prompts_file
          /\ probe'.result = IF prompts_file.state = "corrupt"
                             THEN {"default"}
                             ELSE StoreKeys(prompts_file)
      ]_vars

\* the roles of an unparsable file were listed after set_role had raised
\* on it
C19_Witness ==
    /\ ret.op = "list_available_roles"
    /\ probe.called
    /\ probe.context.state = "corrupt"
    /\ probe.result = {"default"}
    /\ calls = 2

\* C20: for every user and every prior log file (absent, unparsable, or
\* holding any snapshots of any users), get_conversation_history(U) called
\* right after save_conversation(U, context) returns, without raising, a
\* list whose last element has messages equal (as JSON values) to the
\* saved context.
C20_SaveThenHistoryRoundTrip ==
    [][\A u \in Users :
          (ret.op = "save_conversation" /\ ret.user = u /\ GetHistory(u)) =>
              /\ ret'.kind = "list"
              /\ Len(probe'.result) >= 1
              /\ probe'.result[Len(probe'.result)].messages = ToJson(probe.context)
      ]_vars

\* the history was read after a context with an aliased system message was
\* saved for a user who had two snapshots in the log
C20_Witness ==
    /\ ret.op = "get_conversation_history"
    /\ probe.called
    /\ Len(history) = 1
    /\ Len(probe.result) = 3
    /\ Len(probe.context) = 4
    /\ probe.result[3].messages = ToJson(probe.context)

\* C21, as claimed: get_conversation_history(U) called on a log file that
\* does not exist or cannot be parsed returns the empty list, without
\* raising.
C21_FailedLogReadIsEmptyHistory ==
    [][\A u \in Users :
          (conversations_file.state \in {"missing", "corrupt"} /\ GetHistory(u)) =>
              /\ ret'.kind = "list"
              /\ probe'.result = <<>>
      ]_vars

\* C24: save_conversation(U, context) on a log file that parses extends
\* U's snapshot list by exactly one element, the snapshot of the context,
\* at the end (creating U's key when the file has none), keeps U's earlier
\* snapshots as they were and in order, and leaves the key and the snapshot
\* list of every other user as they were.
C24_LogIsAppendOnly ==
    [][\A u \in Users :
          (/\ conversations_file.state = "ok"
           /\ ret'.op = "save_conversation"
           /\ ret'.user = u) =>
              /\ conversations_file'.state = "ok"
              /\ u \in DOMAIN conversations_file'.data
              /\ conversations_file'.data[u] =
                     Append(SnapshotsOf(conversations_file, u),
                            [messages |-> ToJson(probe'.context)])
              /\ \A v \in Users \ {u} :
                     /\ v \in DOMAIN conversations_file'.data
                            <=> v \in DOMAIN conversations_file.data
                     /\ SnapshotsOf(conversations_file', v)
                            = SnapshotsOf(conversations_file, v)
      ]_vars

\* a snapshot was saved for u1, who had no key in a log that held two
\* snapshots of u2
C24_Witness ==
    /\ ret.op = "save_conversation"
    /\ ret.user = "u1"
    /\ Len(history) = 1
    /\ history[1].state = "ok"
    /\ DOMAIN history[1].data = {"u2"}
    /\ Len(history[1].data["u2"]) = 2
    /\ conversations_file.data["u2"] = history[1].data["u2"]
    /\ Len(conversations_file.data["u1"]) = 1

\* how many messages of a context are system messages
SystemCount(context) ==
    Cardinality({i \in 1..Len(context) : context[i].role = "system"})

\* C27, as claimed: for every max_turns that update_settings accepts (0 and
\* negative values included), every mode and every context,
\* _truncate_context returns a list that is no longer than its input and
\* that holds the system message at most once.
C27_TruncateNeverGrowsNorDuplicates ==
    probe.called =>
        /\ Len(probe.result) <= Len(probe.context)
        /\ SystemCount(probe.result) <= 1

\* C28, as claimed: the current_role reported in a chat success result and
\* in every content and done event of a stream is the role whose prompt
\* text is the content of element 0 of the user's context, which is the
\* context that was sent to the backend for the turn, whatever other
\* users' turns ran since the turn began.
C28_ReportedRoleIsRoleOfContext ==
    (ret.op \in {"chat", "chat_stream"} /\ ret.kind \in {"response", "content", "done"}) =>
        /\ ~load_prompt(prompts_file, ret.current_role).raised
        /\ conversation_context[ret.user][1].content
               = load_prompt(prompts_file, ret.current_role).text

\* the user and assistant messages of a context, as JSON values, in order
NonSystem(context) ==
    SelectSeq(ToJson(context), LAMBDA msg : msg.role # "system")

\* a user's context, the empty list for a user who has none
ContextOf(contexts, user_id) ==
    IF user_id \in DOMAIN contexts THEN contexts[user_id] ELSE <<>>

\* the messages a step of a turn adds to the context of its user, read from
\* what the step returned: the user message when the turn got as far as the
\* append, the assistant message when the turn completed
OwnMessages(r, full_response) ==
    LET user == <<[role |-> "user", content |-> r.message]>>
    IN  IF r.op = "chat" /\ r.kind = "response"
        THEN user \o <<[role |-> "assistant", content |-> r.text]>>
        ELSE IF r.op = "chat" /\ r.kind = "error_backend" THEN user
        ELSE IF r.op = "chat_stream" /\ r.kind = "pending" THEN user
        ELSE IF r.op = "chat_stream" /\ r.kind = "error" /\ r.attempts = 1 THEN user
        ELSE IF r.op = "chat_stream" /\ r.kind = "done"
        THEN <<[role |-> "assistant", content |-> full_response]>>
        ELSE <<>>

\* C23: with the calls and the stream steps of different users interleaved
\* in any order (one call per user in flight), a step of a chat or
\* chat_stream call of user U leaves the context of every other user as it
\* was, and leaves in U's context, after the system message, messages of
\* U's earlier turns in their order (all of them, or the most recent ones
\* when the turn began with a truncation) followed by the messages this
\* step added for U.
C23_ContextsArePerUser ==
    [][\A u \in Users :
          (ret'.op \in {"chat", "chat_stream", "close"} /\ ret'.user = u) =>
              /\ \A v \in Users \ {u} :
                     /\ v \in DOMAIN conversation_context'
                            <=> v \in DOMAIN conversation_context
                     /\ ContextOf(conversation_context', v)
                            = ContextOf(conversation_context, v)
              /\ LET old == NonSystem(ContextOf(conversation_context, u))
                     new == NonSystem(ContextOf(conversation_context', u))
                     added == OwnMessages(ret', streams[u].full_response)
                 IN  \E k \in 0..Len(old) :
                         /\ ret'.message = None => k = 0
                         /\ new = SubSeq(old, k + 1, Len(old)) \o added
      ]_vars

\* a single-shot turn of u2 ran to its end while a stream of u1 was
\* suspended between its request and its first chunk
C23_Witness ==
    /\ streams["u1"].pc = "open"
    /\ ret.op = "chat"
    /\ ret.user = "u2"
    /\ ret.kind = "response"
    /\ NonSystem(conversation_context["u1"]) = <<[role |-> "user", content |-> "a"]>>
    /\ NonSystem(conversation_context["u2"]) =
           <<[role |-> "user", content |-> "a"], [role |-> "assistant", content |-> "A"]>>

\* the JSON value of the context a turn of user_id leaves behind when it
\* runs under the limit mt and the mode `mode`: the refreshed context,
\* truncated, then the messages the turn added
ExpectedAfterTurn(user_id, mt, mode, added) ==
    LET system_prompt == load_prompt(prompts_file', current_role').text
        refreshed == RefreshContext(conversation_context, user_id, system_prompt)
    IN  ToJson(TruncateWith(refreshed, mt, mode)) \o added

\* C22: every chat and chat_stream turn that gets as far as the append of
\* the user message truncates the user's context with the values max_turns
\* and truncate_mode have when the turn begins; so the turn that follows an
\* update_settings call, whichever user makes it, is truncated according
\* to the values that call left.
C22_TruncationUsesCurrentSettings ==
    [][\A u \in Users :
          (/\ ret'.op \in {"chat", "chat_stream"}
           /\ ret'.user = u
           /\ ret'.message # None
           /\ OwnMessages(ret', "") # <<>>) =>
              ToJson(conversation_context'[u]) =
                  ExpectedAfterTurn(u, max_turns, truncate_mode, OwnMessages(ret', ""))
      ]_vars

\* u1 had a turn, then the settings were changed to clear mode, and the
\* very next call, a turn of u1, cleared the earlier turn: the context
\* holds the system message and the new turn only
C22_Witness ==
    /\ calls = 3
    /\ Len(history) = 2
    /\ history[1].op = "update_settings"
    /\ history[2] = CallRec("chat", "u1", None)
    /\ ret.kind = "response"
    /\ truncate_mode = "clear"
    /\ max_turns = 0
    /\ Len(SnapshotsOf(conversations_file, "u1")) = 2
    /\ Len(conversation_context["u1"]) = 3

\* C25: clear_context(U) deletes U's context and nothing else: the key and
\* the context of every other user, the active role, max_turns,
\* truncate_mode, the prompt file and the log file are as they were, and
\* when U has no context nothing changes at all; the next turn of U that
\* gets as far as the append starts from a new context, which is the
\* system message of the active role followed by the turn's own messages.
C25_ClearRemovesOneContextOnly ==
    [][\A u \in Users :
          /\ (ret'.op = "clear_context" /\ ret'.user = u) =>
                 /\ u \notin DOMAIN conversation_context'
                 /\ \A v \in Users \ {u} :
                        /\ v \in DOMAIN conversation_context'
                               <=> v \in DOMAIN conversation_context
                        /\ ContextOf(conversation_context', v)
                               = ContextOf(conversation_context, v)
                 /\ u \notin DOMAIN conversation_context =>
                        conversation_context' = conversation_context
                 /\ UNCHANGED <<current_role, max_turns, truncate_mode,
                                prompts_file, conversations_file>>
          /\ (/\ ret.op = "clear_context"
              /\ ret.user = u
              /\ ret'.op \in {"chat", "chat_stream"}
              /\ ret'.user = u
              /\ OwnMessages(ret', "") # <<>>) =>
                 ToJson(conversation_context'[u]) =
                     <<[role |-> "system",
                        content |-> default_prompts[current_role']]>>
                     \o OwnMessages(ret', "")
      ]_vars

\* u1 had a turn under max_turns = 1, cleared the context, and had the
\* next turn: the context holds the new turn only, and the log both turns
C25_Witness ==
    /\ calls = 3
    /\ history = <<CallRec("clear_context", "u1", None), CallRec("chat", "u1", None)>>
    /\ ret.kind = "response"
    /\ max_turns = 1
    /\ Len(SnapshotsOf(conversations_file, "u1")) = 2
    /\ ToJson(conversation_context["u1"]) =
           <<[role |-> "system", content |-> default_prompts["default"]],
             [role |-> "user", content |-> "a"],
             [role |-> "assistant", content |-> "A"]>>

\* C29: the active role is one value shared by all users.  When a turn of
\* user A carried a role override R that the store holds, the next call, a
\* turn of another user B made without an override that gets as far as the
\* append, leaves B's context with R's prompt text as the content of
\* element 0 (this is the context sent to the backend), and B's user and
\* assistant messages are those the truncation keeps followed by the
\* turn's own: the switch changed none of them.
C29_ActiveRoleIsShared ==
    [][\A a \in Users, b \in Users, r \in DOMAIN default_prompts :
          (/\ a # b
           /\ history # <<>>
           /\ history[Len(history)] \in {CallRec("chat", a, r), CallRec("chat_stream", a, r)}
           /\ ret.kind # "error_invalid_role"
           /\ history'[Len(history')] \in
                  {CallRec("chat", b, None), CallRec("chat_stream", b, None)}
           /\ OwnMessages(ret', "") # <<>>) =>
              /\ current_role' = r
              /\ conversation_context'[b][1].role = "system"
              /\ conversation_context'[b][1].content = default_prompts[r]
              /\ NonSystem(conversation_context'[b]) =
                     NonSystem(_truncate_context(ContextOf(conversation_context, b)))
                     \o OwnMessages(ret', "")
      ]_vars

\* u2 had a turn under the default role, u1 had a turn with the override
\* "code", and the next call, a turn of u2 without an override, rewrote
\* element 0 of u2's context to the prompt of "code" and kept u2's
\* earlier turn
C29_Witness ==
    /\ calls = 3
    /\ history = <<CallRec("chat", "u1", "code"), CallRec("chat", "u2", None)>>
    /\ ret.kind = "response"
    /\ current_role = "code"
    /\ conversation_context["u2"][1].content = default_prompts["code"]
    /\ Len(NonSystem(conversation_context["u2"])) = 4
    /\ SnapshotsOf(conversations_file, "u2")[1].messages[1].content
           = default_prompts["default"]

\* C26: with max_turns fixed at M >= 1 and the calls made one at a time,
\* after any run of chat and chat_stream calls, each succeeding or failing
\* at the backend, in either mode, every user's context holds at most
\* 2 * M + 4 messages, the system message included, and at most 2 * M + 3
\* while every call of the run has succeeded.
C26_ContextLengthIsBounded ==
    \A u \in DOMAIN conversation_context :
        /\ Len(conversation_context[u]) <= 2 * max_turns + 4
        /\ history # SomeCallFailed =>
               Len(conversation_context[u]) <= 2 * max_turns + 3

\* under the largest limit, after a failed call, a streamed turn completed
\* and left its user's context at 2 * max_turns + 4 messages
C26_Witness ==
    /\ max_turns = MaxBoundTurns
    /\ history = SomeCallFailed
    /\ ret.op = "chat_stream"
    /\ ret.kind = "done"
    /\ Len(conversation_context[ret.user]) = 2 * max_turns + 4

\* every call has succeeded and a context holds 2 * max_turns + 3 messages
C26_WitnessAllSucceed ==
    /\ history = <<>>
    /\ ret.kind = "response"
    /\ Len(conversation_context[ret.user]) = 2 * max_turns + 3

====
